---- MODULE Spec2Model ----
(***************************************************************************)
(* Slot game: the reel grid (ReelArea), its reels (Reel, three drafts) and *)
(* the button wiring (Game), driven by the animation driver's tick.        *)
(*                                                                         *)
(* Time is counted in frames: one Tick is one call of gsap.updateRoot.     *)
(* The driver keeps its tweens and deferred calls in creation order and    *)
(* runs them in that order within a tick.  Every pending deferred call is  *)
(* older than every running tween (the calls are all created by the click, *)
(* the tweens by the calls), so within a tick the due calls run first,     *)
(* then the tweens are rendered; tweens of different reels do not touch    *)
(* common state and are rendered here in index order.  The code after an   *)
(* `await` of a finished tween runs as a continuation when the tick's      *)
(* callback has returned.  Clicks happen between ticks; a click is taken   *)
(* to happen at the instant of the last tick, so that a deferred call of   *)
(* delay d runs d frames after the click.                                  *)
(***************************************************************************)
EXTENDS Integers, Sequences, FiniteSets, TLC

VARIABLES
    config,                      \* GameConfig handed to Game/ReelArea/Reel
    reelsFinishedSpinningCount,  \* ReelArea.reelsFinishedSpinningCount
    reels,                       \* ReelArea.reels: index -> Reel state
    timers,                      \* pending gsap.delayedCall entries, in creation order
    queue,                       \* tweens still to render in the current tick
    micro,                       \* continuations of awaited tweens, to run after the tick
    spinButton,                  \* Game.spinButton: [visible, disabled]
    stopButton,                  \* Game.stopButton: [visible, disabled]
    clock,                       \* frames since the last successful ReelArea.startSpinning
    log,                         \* events of the current spin cycle, oldest first
    lastOp                       \* the handler that ran last

vars == <<config, reelsFinishedSpinningCount, reels, timers, queue, micro,
          spinButton, stopButton, clock, log, lastOp>>

----------------------------------------------------------------------------
(* Bounds of the configurations explored.                                  *)

MaxReels == 3
MaxSymbolsPerReel == 2
MaxTweenDuration == 2
MaxStartInterval == 2
MaxStopInterval == 2
MaxStopDelay == 6
MaxTextures == 2

ReelVariants == {"down", "updown", "four"}

VariantDirections(v) ==
    CASE v = "down"   -> {"DOWN"}
      [] v = "updown" -> {"DOWN", "UP"}
      [] v = "four"   -> {"DOWN", "UP", "LEFT", "RIGHT"}

(* A configuration.  spinningTweenDuration is 1000/(symbolsPerReel *       *)
(* spinningSpeed) expressed in frames; the reel area is sized so that the  *)
(* eased positions are whole numbers.                                      *)
MakeConfig(n, spr, d, si, sd, sti, v, dir, tx) ==
    [ reelsCount            |-> n,
      symbolsPerReel        |-> spr,
      spinningTweenDuration |-> d,
      reelAreaWidth         |-> n * 40 * d * d,
      reelAreaHeight        |-> spr * 40 * d * d,
      startInterval         |-> si,
      stopDelay             |-> sd,
      stopInterval          |-> sti,
      variant               |-> v,
      movingDirection       |-> dir,
      textures              |-> tx ]

ValidConfig(c) == c.movingDirection \in VariantDirections(c.variant)

MovingDirections == {"DOWN", "UP", "LEFT", "RIGHT"}

(* Grids of several reels, over the timing parameters, for one direction   *)
(* of each draft of Reel; one tile is shown per reel, all tiles carry the  *)
(* same texture, a segment of the spin takes one frame and the stop        *)
(* interval is the shortest or the longest.                                *)
GridDrafts == { <<"down", "DOWN">>, <<"updown", "UP">>, <<"four", "LEFT">> }

GridConfigs ==
    { MakeConfig(n, 1, 1, si, sd, sti, vd[1], vd[2], 1) :
        n \in 2..MaxReels,
        si \in 1..MaxStartInterval, sd \in 1..MaxStopDelay,
        sti \in {1, MaxStopInterval}, vd \in GridDrafts }

(* Grids of one reel, over the drafts and the directions: the number of    *)
(* tiles varies with one texture, the number of textures with one tile     *)
(* shown.  The scheduled stop comes at MaxStopDelay and the manual stop    *)
(* latches the reel at any earlier frame; with the start interval above    *)
(* the stop delay the grid refuses to start.                               *)
ReelShapes ==
    { <<spr, 1>> : spr \in 1..MaxSymbolsPerReel } \cup
    { <<1, tx>> : tx \in 1..MaxTextures }

ReelConfigs ==
    { c \in { MakeConfig(1, sh[1], d, si, MaxStopDelay, 1, v, dir, sh[2]) :
                sh \in ReelShapes, d \in 1..MaxTweenDuration,
                si \in {1, MaxStopDelay + 1},
                v \in ReelVariants, dir \in MovingDirections } :
        ValidConfig(c) }

----------------------------------------------------------------------------
(* Reel geometry.                                                          *)

symbolWidth(c)  == c.reelAreaWidth \div c.reelsCount
symbolHeight(c) == c.reelAreaHeight \div c.symbolsPerReel

Abs(x) == IF x < 0 THEN -x ELSE x
Sgn(x) == IF x < 0 THEN -1 ELSE IF x > 0 THEN 1 ELSE 0

(* Initial position of the tile at index i (0-based) of a reel.            *)
InitialSymbolPosition(c, i) ==
    CASE c.variant = "down" ->
           [x |-> 0, y |-> (i - 1) * symbolHeight(c)]
      [] c.variant = "updown" ->
           [x |-> 0,
            y |-> (IF c.movingDirection = "DOWN" THEN i - 1 ELSE i) * symbolHeight(c)]
      [] c.variant = "four" ->
           CASE c.movingDirection = "DOWN"  -> [x |-> 0, y |-> (i - 1) * symbolHeight(c)]
             [] c.movingDirection = "UP"    -> [x |-> 0, y |-> i * symbolHeight(c)]
             [] c.movingDirection = "LEFT"  -> [x |-> i * symbolWidth(c), y |-> 0]
             [] c.movingDirection = "RIGHT" -> [x |-> (i - 1) * symbolWidth(c), y |-> 0]

(* Position of the reel at index i inside the reel area.                   *)
InitialReelPosition(c, i) ==
    IF c.variant = "four" /\ c.movingDirection \in {"LEFT", "RIGHT"}
    THEN [x |-> 0, y |-> i * symbolHeight(c)]
    ELSE [x |-> i * symbolWidth(c), y |-> 0]

----------------------------------------------------------------------------
(* The animation driver's easing curves, as the displacement reached at    *)
(* frame t of a tween of duration dur that travels delta in all.           *)

(* ease "none" *)
EaseNone(delta, t, dur) == Sgn(delta) * ((Abs(delta) * t) \div dur)

(* ease "power1.in": progress squared *)
EasePower1In(delta, t, dur) == Sgn(delta) * ((Abs(delta) * t * t) \div (dur * dur))

(* ease "back.out": 1 + 2.7 (p-1)^3 + 1.7 (p-1)^2 (gsap's overshoot 1.70158  *)
(* to one decimal), which exceeds 1, overshooting the target, for p above  *)
(* 10/27 and is 1 at p = 1.                                                *)
EaseBackOut(delta, t, dur) ==
    LET q == dur - t
    IN  delta + Sgn(delta) *
          ((Abs(delta) * q * q * (17 * dur - 27 * q)) \div (10 * dur * dur * dur))

Ease(kind, delta, t, dur) ==
    CASE kind = "easeIn" -> EasePower1In(delta, t, dur)
      [] kind = "loop"   -> EaseNone(delta, t, dur)
      [] kind = "stop"   -> EaseBackOut(delta, t, dur)

(* Value of a tween (run) at its current time.  A tween that was given only *)
(* y leaves x alone: its from.x and to.x are equal.                        *)
TweenValue(run) ==
    [x |-> run.from.x + Ease(run.kind, run.to.x - run.from.x, run.time, run.duration),
     y |-> run.from.y + Ease(run.kind, run.to.y - run.from.y, run.time, run.duration)]

NoRun == [kind |-> "none", time |-> 0, duration |-> 0, initted |-> FALSE,
          from |-> [x |-> 0, y |-> 0], to |-> [x |-> 0, y |-> 0]]

(* gsap.to(this.position, ...): the start values are read when the tween   *)
(* is first rendered (initted), not when it is created.                    *)
NewRun(kind, from, to, duration) ==
    [kind |-> kind, time |-> 0, duration |-> duration, initted |-> FALSE,
     from |-> from, to |-> to]

----------------------------------------------------------------------------
(* Wrap-and-recycle of one tile; tex is the texture a wrapped tile gets    *)
(* from AssetLoader.getRandomSymbolTexture.  eps = 0.1 is kept by scaling  *)
(* the comparison by ten.                                                  *)

(* first draft: down only *)
LoopSymbolDown(c, s, tex) ==
    LET y1 == s.y + symbolHeight(c)
    IN  IF 10 * y1 >= 10 * c.reelAreaHeight - 1
        THEN [s EXCEPT !.y = -symbolHeight(c), !.tex = tex]
        ELSE [s EXCEPT !.y = y1]

(* second draft: up and down *)
updateSymbolPosition(c, s, tex) ==
    LET directionIsDown == c.movingDirection = "DOWN"
        movementY == IF directionIsDown THEN symbolHeight(c) ELSE -symbolHeight(c)
        y1 == s.y + movementY
        hasMovedOffscreen ==
            IF directionIsDown
            THEN 10 * y1 >= 10 * c.reelAreaHeight - 1
            ELSE 10 * y1 <= -10 * symbolHeight(c) + 1
    IN  IF hasMovedOffscreen
        THEN [s EXCEPT !.y = IF directionIsDown THEN -symbolHeight(c)
                                                ELSE c.reelAreaHeight,
                       !.tex = tex]
        ELSE [s EXCEPT !.y = y1]

(* third draft: four directions *)
getSymbolMovementDirection(c, s) ==
    CASE c.movingDirection = "DOWN"  -> [x |-> s.x, y |-> symbolHeight(c)]
      [] c.movingDirection = "UP"    -> [x |-> s.x, y |-> -symbolHeight(c)]
      [] c.movingDirection = "LEFT"  -> [x |-> -symbolWidth(c), y |-> 0]
      [] c.movingDirection = "RIGHT" -> [x |-> symbolWidth(c), y |-> 0]

isSymbolOffScreen(c, s) ==
    CASE c.movingDirection = "DOWN" ->
           IF 10 * s.y >= 10 * c.reelAreaHeight - 1
           THEN [xAdjust |-> 0, yAdjust |-> -c.reelAreaHeight]
           ELSE [xAdjust |-> 0, yAdjust |-> 0]
      [] c.movingDirection = "UP" ->
           IF 10 * s.y <= -10 * symbolHeight(c) + 1
           THEN [xAdjust |-> 0, yAdjust |-> c.reelAreaHeight]
           ELSE [xAdjust |-> 0, yAdjust |-> 0]
      [] c.movingDirection = "RIGHT" ->
           IF 10 * s.x >= 10 * c.reelAreaWidth - 1
           THEN [xAdjust |-> -c.reelAreaWidth, yAdjust |-> 0]
           ELSE [xAdjust |-> 0, yAdjust |-> 0]
      [] c.movingDirection = "LEFT" ->
           IF 10 * s.x <= -10 * symbolWidth(c) + 1
           THEN [xAdjust |-> c.reelAreaWidth + symbolWidth(c), yAdjust |-> 0]
           ELSE [xAdjust |-> 0, yAdjust |-> 0]

shiftSymbolPosition(c, s, tex) ==
    LET d  == getSymbolMovementDirection(c, s)
        s1 == [s EXCEPT !.x = s.x + d.x, !.y = s.y + d.y]
        a  == isSymbolOffScreen(c, s1)
    IN  IF a.xAdjust # 0 \/ a.yAdjust # 0
        THEN [s1 EXCEPT !.tex = tex, !.x = s1.x + a.xAdjust, !.y = s1.y + a.yAdjust]
        ELSE s1

LoopSymbol(c, s, tex) ==
    CASE c.variant = "down"   -> LoopSymbolDown(c, s, tex)
      [] c.variant = "updown" -> updateSymbolPosition(c, s, tex)
      [] c.variant = "four"   -> shiftSymbolPosition(c, s, tex)

(* Bookkeeping for the texture of a tile: age counts the wrap-and-recycle  *)
(* passes the tile went through since it last got a texture (from the      *)
(* constructor or from a wrap), and stops counting at the number of tiles. *)
(* A wrap is told by the texture drawn arriving in the tile.               *)
Aged(c, s, n) ==
    IF LoopSymbol(c, s, 0).tex = 0 THEN 0
    ELSE IF s.age < n THEN s.age + 1 ELSE s.age

(* The first tile taken out of the list and not put back. *)
loopReelLosesTile(c, symbols) ==
    { Tail([k \in 1..Len(symbols) |-> LoopSymbol(c, symbols[k], texs[k])]) :
        texs \in [1..Len(symbols) -> 1..c.textures] }

(* Every tile given a new texture, wrapped or not. *)
loopReelRetexturesAll(c, symbols) ==
    { [k \in 1..Len(symbols) |->
          [LoopSymbol(c, symbols[k], 0) EXCEPT !.tex = texs[k],
                                               !.age = Aged(c, symbols[k], Len(symbols))]] :
        texs \in [1..Len(symbols) -> 1..c.textures] }

(* loopReel: every tile is advanced (and wrapped when off screen), in      *)
(* order.  The result depends on the random textures drawn, so this is the *)
(* set of the outcomes.                                                    *)
loopReel(c, symbols) ==
    { [k \in 1..Len(symbols) |->
          [LoopSymbol(c, symbols[k], texs[k])
              EXCEPT !.age = Aged(c, symbols[k], Len(symbols))]] :
        texs \in [1..Len(symbols) -> 1..c.textures] }

----------------------------------------------------------------------------
(* Reel: construction and the synchronous pieces of its methods, as        *)
(* functions from a reel's state to its next state(s).                     *)

ReelIndexes(c) == 0..(c.reelsCount - 1)

(* new Reel(config), then ReelArea's placement of it at index i *)
NewReel(c, i, texs) ==
    [ needsToStop    |-> FALSE,
      stopping       |-> FALSE,
      backoutStarted |-> FALSE,
      compensations  |-> 0,
      position       |-> InitialReelPosition(c, i),
      symbols        |-> [k \in 1..(c.symbolsPerReel + 1) |->
                            [x   |-> InitialSymbolPosition(c, k - 1).x,
                             y   |-> InitialSymbolPosition(c, k - 1).y,
                             tex |-> texs[k],
                             age |-> 0]],
      run            |-> NoRun,
      more           |-> <<>> ]

(* Where the ease-in tween (and, in the first two drafts, the stopping     *)
(* tween) takes the reel.                                                  *)
getReelPosition(c, r) ==
    CASE c.variant = "down" ->
           [x |-> r.position.x, y |-> symbolHeight(c)]
      [] c.variant = "updown" ->
           [x |-> r.position.x,
            y |-> IF c.movingDirection = "DOWN" THEN symbolHeight(c) ELSE -symbolHeight(c)]
      [] c.variant = "four" ->
           CASE c.movingDirection = "DOWN"  -> [x |-> r.position.x, y |-> symbolHeight(c)]
             [] c.movingDirection = "UP"    -> [x |-> r.position.x, y |-> -symbolHeight(c)]
             [] c.movingDirection = "LEFT"  -> [x |-> -symbolWidth(c), y |-> r.position.y]
             [] c.movingDirection = "RIGHT" -> [x |-> 0, y |-> r.position.y]

(* Where the looping tween takes the reel: two tiles further.              *)
getSpinningReelPosition(c, r) ==
    CASE c.variant = "down" ->
           [x |-> r.position.x, y |-> symbolHeight(c) * 2]
      [] c.variant = "updown" ->
           [x |-> r.position.x,
            y |-> symbolHeight(c) * 2 * (IF c.movingDirection = "DOWN" THEN 1 ELSE -1)]
      [] c.variant = "four" ->
           CASE c.movingDirection = "DOWN"  ->
                  [x |-> r.position.x, y |-> r.position.y + symbolHeight(c) * 2]
             [] c.movingDirection = "UP"    ->
                  [x |-> r.position.x, y |-> r.position.y - symbolHeight(c) * 2]
             [] c.movingDirection = "RIGHT" ->
                  [x |-> r.position.x + symbolWidth(c) * 2, y |-> r.position.y]
             [] c.movingDirection = "LEFT"  ->
                  [x |-> r.position.x - symbolWidth(c) * 2, y |-> r.position.y]

(* The tweens on a reel's position that are active, oldest first: run is   *)
(* the oldest and more holds the ones created while it was active.  The    *)
(* driver renders them in this order.                                      *)
Tweens(r) == (IF r.run.kind # "none" THEN <<r.run>> ELSE <<>>) \o r.more

WithTweens(r, ts) ==
    [r EXCEPT !.run  = IF ts = <<>> THEN NoRun ELSE Head(ts),
              !.more = IF ts = <<>> THEN <<>> ELSE Tail(ts)]

(* gsap.to(this.position, ...) on a reel: one more active tween.           *)
AddTween(r, t) == WithTweens(r, Append(Tweens(r), t))

(* Reel.startSpinning up to its await: the ease-in tween is created.       *)
startSpinning(c, r) ==
    AddTween(r, NewRun("easeIn", r.position, getReelPosition(c, r),
                       c.spinningTweenDuration * 2))

(* The latch set only on a reel that loops. *)
stopSpinningOnlyLooping(r) ==
    IF r.run.kind = "loop" THEN [r EXCEPT !.needsToStop = TRUE] ELSE r

(* A stopSpinning that flips the latch instead of setting it. *)
stopSpinningFlips(r) == [r EXCEPT !.needsToStop = ~r.needsToStop]

(* Reel.stopSpinning *)
stopSpinning(r) == [r EXCEPT !.needsToStop = TRUE]

(* The stopping sequence begun again on a reel that is stopping. *)
beginStoppingAnimationUnguarded(c, r) ==
    IF c.variant = "four" THEN r
    ELSE AddTween([r EXCEPT !.stopping = TRUE,
                            !.backoutStarted = FALSE,
                            !.compensations = 0],
                  NewRun("stop", r.position, getReelPosition(c, r),
                         c.spinningTweenDuration * 4))

(* Reel.beginStoppingAnimation up to its await.  The third draft returns   *)
(* at once.                                                                *)
beginStoppingAnimation(c, r) ==
    IF c.variant = "four" THEN r
    ELSE IF r.stopping THEN r
    ELSE AddTween([r EXCEPT !.stopping = TRUE,
                            !.backoutStarted = FALSE,
                            !.compensations = 0],
                  NewRun("stop", r.position, getReelPosition(c, r),
                         c.spinningTweenDuration * 4))

(* The driver advances a reel's tween by one frame and writes the reel's   *)
(* position.                                                               *)
Advance(r) ==
    LET run1 == [r.run EXCEPT !.time = r.run.time + 1,
                              !.initted = TRUE,
                              !.from = IF r.run.initted THEN r.run.from ELSE r.position]
    IN  [r EXCEPT !.run = run1, !.position = TweenValue(run1)]

(* The latch looked at on every frame, not only at the wrap. *)
LoopUpdateStopsMidSegment(c, r) ==
    IF r.needsToStop
    THEN { beginStoppingAnimation(c, [r EXCEPT !.run = NoRun]) }
    ELSE IF r.run.time > c.spinningTweenDuration
    THEN { LET run1 == [r.run EXCEPT !.time = r.run.time % c.spinningTweenDuration]
           IN  [r EXCEPT !.symbols = syms, !.run = run1, !.position = TweenValue(run1)]
           : syms \in loopReel(c, r.symbols) }
    ELSE {r}

(* The looping tween's onUpdate, after the driver advanced it.             *)
LoopUpdate(c, r) ==
    IF r.run.time > c.spinningTweenDuration
    THEN { LET run1 == [r.run EXCEPT !.time = r.run.time % c.spinningTweenDuration]
               r1   == [r EXCEPT !.symbols = syms, !.run = run1,
                                 !.position = TweenValue(run1)]
           IN  IF r1.needsToStop
               THEN beginStoppingAnimation(c, [r1 EXCEPT !.run = NoRun])
               ELSE r1
           : syms \in loopReel(c, r.symbols) }
    ELSE {r}

(* Bookkeeping: compensations counts the threshold-crossing compensations *)
(* of the reel's latest stopping sequence, up to the first repetition.     *)
Compensated(n) == IF n < 2 THEN n + 1 ELSE n

(* The stopping tween's onUpdate, after the driver advanced it.            *)
StopUpdate(c, r) ==
    LET h == symbolHeight(c)
        crossedUpperThreshold == r.position.y >= h
        crossedLowerThreshold == r.position.y <= -h
        isTreshholdCrossed ==
            IF c.variant = "down" THEN crossedUpperThreshold
            ELSE crossedUpperThreshold \/ crossedLowerThreshold
        shift == IF c.variant = "updown" /\ c.movingDirection = "UP" THEN h ELSE -h
        marks == IF c.variant = "down" THEN TRUE ELSE crossedUpperThreshold
    IN  IF ~r.backoutStarted /\ isTreshholdCrossed
        THEN { [r EXCEPT !.symbols = [k \in 1..Len(syms) |->
                                        [syms[k] EXCEPT !.y = syms[k].y + shift]],
                         !.backoutStarted = IF marks THEN TRUE ELSE r.backoutStarted,
                         !.compensations = Compensated(r.compensations)]
               : syms \in loopReel(c, r.symbols) }
        ELSE {r}

(* Reel.startSpinning after the await of the ease-in tween.                *)
EaseInContinuation(c, r) ==
    { LET r1 == [r EXCEPT !.symbols = syms,
                          !.position = IF c.variant = "four" THEN r.position
                                       ELSE [r.position EXCEPT !.y = 0],
                          !.needsToStop = FALSE]
      IN  AddTween(r1, NewRun("loop", r1.position, getSpinningReelPosition(c, r1),
                              c.spinningTweenDuration * 2))
      : syms \in loopReel(c, r.symbols) }

(* The stopping sequence ended without its last wrap-and-recycle pass. *)
StopContinuationNoPass(c, r) ==
    { [r EXCEPT !.position = [r.position EXCEPT !.y = 0], !.stopping = FALSE] }

(* The continuation that forgets to lower isStopping. *)
StopContinuationKeepsStopping(c, r) ==
    { [r EXCEPT !.symbols = syms,
                !.position = [r.position EXCEPT !.y = 0]]
      : syms \in loopReel(c, r.symbols) }

(* Reel.beginStoppingAnimation after the await of the stopping tween, up   *)
(* to the emit of stoppedSpinning.                                         *)
StopContinuation(c, r) ==
    { [r EXCEPT !.symbols = syms,
                !.position = [r.position EXCEPT !.y = 0],
                !.stopping = FALSE]
      : syms \in loopReel(c, r.symbols) }

----------------------------------------------------------------------------
(* ReelArea: the configuration check and the two schedules of              *)
(* startSpinning.                                                          *)

(* The check without the number of reels. *)
ConfigInvalidOneInterval(c) == c.startInterval > c.stopDelay

(* No check at all. *)
ConfigInvalidNever(c) == FALSE

ConfigInvalid(c) == c.reelsCount * c.startInterval > c.stopDelay

(* The count carried over into the next cycle. *)
ResetCountKept == reelsFinishedSpinningCount

(* this.reelsFinishedSpinningCount = 0 *)
ResetCount == 0

(* The last index taken for the number of reels. *)
IsLastIndexOffByOne(c, i) == i = c.reelsCount

(* i === this.reels.length - 1 *)
IsLastIndex(c, i) == i = c.reelsCount - 1

(* The start delays counted from one interval instead of from zero. *)
StartScheduleFromOne(c) ==
    [k \in 1..c.reelsCount |->
        [kind |-> "start", reel |-> k - 1,
         remaining |-> k * c.startInterval, cur |-> TRUE]]

(* gsap.delayedCall(i * startInterval, ...) for every reel, in index order *)
StartSchedule(c) ==
    [k \in 1..c.reelsCount |->
        [kind |-> "start", reel |-> k - 1,
         remaining |-> (k - 1) * c.startInterval, cur |-> TRUE]]

(* The stop delays staggered by the start interval. *)
StopScheduleStartInterval(c) ==
    [k \in 1..c.reelsCount |->
        [kind |-> "stop", reel |-> k - 1,
         remaining |-> c.stopDelay + (k - 1) * c.startInterval, cur |-> TRUE]]

(* gsap.delayedCall(stopDelay + i * stopInterval, ...) for every reel *)
StopSchedule(c) ==
    [k \in 1..c.reelsCount |->
        [kind |-> "stop", reel |-> k - 1,
         remaining |-> c.stopDelay + (k - 1) * c.stopInterval, cur |-> TRUE]]

(* The deferred calls of earlier cycles stay scheduled; cur tells the ones *)
(* of the latest startSpinning from them.                                  *)
Stale(ts) == [k \in 1..Len(ts) |-> [ts[k] EXCEPT !.cur = FALSE]]

(* Index in timers of the deferred call the driver runs next: the oldest   *)
(* one that is due; 0 when none is due.                                    *)
DueIndex ==
    IF \E k \in 1..Len(timers) : timers[k].remaining = 0
    THEN CHOOSE k \in 1..Len(timers) :
            /\ timers[k].remaining = 0
            /\ \A j \in 1..(k - 1) : timers[j].remaining # 0
    ELSE 0

RemoveAt(seq, k) == SubSeq(seq, 1, k - 1) \o SubSeq(seq, k + 1, Len(seq))

(* Nothing is running: the tick's callback and the continuations it        *)
(* released have returned, so the next tick or a click can happen.         *)
Idle == DueIndex = 0 /\ queue = <<>> /\ micro = <<>>

(* The cycle clock stops one frame after the last scheduled call.          *)
ClockCap(c) == c.stopDelay + (c.reelsCount - 1) * c.stopInterval + 1

Event(ev, reel) == [ev |-> ev, reel |-> reel, at |-> clock]

----------------------------------------------------------------------------
(* Initial state: Game's constructor has run.                              *)

(* new Game(config) for a configuration of cfgs *)
Constructed(cfgs) ==
    /\ config \in cfgs
    /\ reelsFinishedSpinningCount = 0
    /\ reels \in { [i \in ReelIndexes(config) |-> NewReel(config, i, texs[i])] :
                     texs \in [ReelIndexes(config) ->
                                 [1..(config.symbolsPerReel + 1) -> 1..config.textures]] }
    /\ timers = <<>>
    /\ queue = <<>>
    /\ micro = <<>>
    /\ spinButton = [visible |-> TRUE, disabled |-> FALSE]
    /\ stopButton = [visible |-> FALSE, disabled |-> FALSE]
    /\ clock = 0
    /\ log = <<>>
    /\ lastOp = "init"

Init == Constructed(GridConfigs)

----------------------------------------------------------------------------
(* Game: the click handlers.                                               *)

(* A button that takes clicks while it is disabled. *)
ClickableWhenVisible(button) == button.visible

Clickable(button) == button.visible /\ ~button.disabled

(* The check made after the count is reset and the calls are scheduled. *)
SpinClickThrowsLate ==
    /\ Idle /\ Clickable(spinButton)
    /\ ConfigInvalid(config)
    /\ reelsFinishedSpinningCount' = ResetCount
    /\ timers' = Stale(timers) \o StartSchedule(config) \o StopSchedule(config)
    /\ lastOp' = "spinClickThrows"
    /\ UNCHANGED <<config, reels, queue, micro, spinButton, stopButton, clock, log>>

(* spin click, ReelArea.startSpinning throws: the handler ends there *)
SpinClickThrows ==
    /\ Idle /\ Clickable(spinButton)
    /\ ConfigInvalid(config)
    /\ lastOp' = "spinClickThrows"
    /\ UNCHANGED <<config, reelsFinishedSpinningCount, reels, timers, queue, micro,
                   spinButton, stopButton, clock, log>>

(* spin click, ReelArea.startSpinning returns: showStopButton, disable     *)
SpinClickStarts ==
    /\ Idle /\ Clickable(spinButton)
    /\ ~ConfigInvalid(config)
    /\ reelsFinishedSpinningCount' = ResetCount
    /\ timers' = Stale(timers) \o StartSchedule(config) \o StopSchedule(config)
    /\ spinButton' = [spinButton EXCEPT !.visible = FALSE]
    /\ stopButton' = [visible |-> TRUE, disabled |-> TRUE]
    /\ clock' = 0
    /\ log' = << [ev |-> "startSpinning", reel |-> -1, at |-> 0] >>
    /\ lastOp' = "spinClickStarts"
    /\ UNCHANGED <<config, reels, queue, micro>>

(* stop click: ReelArea.stopSpinning, showSpinButton, spinButton.disable   *)
StopClick ==
    /\ Idle /\ Clickable(stopButton)
    /\ reels' = [i \in ReelIndexes(config) |-> stopSpinning(reels[i])]
    /\ spinButton' = [visible |-> TRUE, disabled |-> TRUE]
    /\ stopButton' = [stopButton EXCEPT !.visible = FALSE]
    /\ log' = Append(log, Event("manualStop", -1))
    /\ lastOp' = "stopClick"
    /\ UNCHANGED <<config, reelsFinishedSpinningCount, timers, queue, micro, clock>>

----------------------------------------------------------------------------
(* The driver's tick (gsap.updateRoot from the application's ticker).      *)

RunningReels(c, rs) == { i \in ReelIndexes(c) : rs[i].run.kind # "none" }

RECURSIVE Ascending(_)
Ascending(S) ==
    IF S = {} THEN <<>>
    ELSE LET m == CHOOSE i \in S : \A j \in S : i <= j
         IN  <<m>> \o Ascending(S \ {m})

(* A frame passes: every deferred call comes one frame closer, and the     *)
(* running tweens are to be rendered.                                      *)
Tick ==
    /\ Idle
    /\ timers' = [k \in 1..Len(timers) |->
                    [timers[k] EXCEPT !.remaining = timers[k].remaining - 1]]
    /\ queue' = Ascending(RunningReels(config, reels))
    /\ clock' = IF log # <<>> /\ clock < ClockCap(config) THEN clock + 1 ELSE clock
    /\ lastOp' = "tick"
    /\ UNCHANGED <<config, reelsFinishedSpinningCount, reels, micro,
                   spinButton, stopButton, log>>

(* The ease-in tween of the reel at the head of the queue is rendered; at  *)
(* its end the tween is done and the await in startSpinning is released.   *)
EaseInFrame ==
    /\ DueIndex = 0 /\ queue # <<>>
    /\ LET i == Head(queue)
           r == Advance(reels[i])
       IN  /\ reels[i].run.kind = "easeIn" /\ reels[i].more = <<>>
           /\ IF r.run.time = r.run.duration
              THEN /\ reels' = [reels EXCEPT ![i] = [r EXCEPT !.run = NoRun]]
                   /\ micro' = Append(micro, [reel |-> i, kind |-> "easeIn"])
              ELSE /\ reels' = [reels EXCEPT ![i] = r]
                   /\ micro' = micro
    /\ queue' = Tail(queue)
    /\ lastOp' = "easeInFrame"
    /\ UNCHANGED <<config, reelsFinishedSpinningCount, timers,
                   spinButton, stopButton, clock, log>>

(* The looping tween is rendered and its onUpdate runs.                    *)
LoopFrame ==
    /\ DueIndex = 0 /\ queue # <<>>
    /\ LET i == Head(queue)
       IN  /\ reels[i].run.kind = "loop" /\ reels[i].more = <<>>
           /\ \E r \in LoopUpdate(config, Advance(reels[i])) :
                 reels' = [reels EXCEPT ![i] = r]
    /\ queue' = Tail(queue)
    /\ lastOp' = "loopFrame"
    /\ UNCHANGED <<config, reelsFinishedSpinningCount, timers, micro,
                   spinButton, stopButton, clock, log>>

(* The stopping tween is rendered and its onUpdate runs; at its end the    *)
(* await in beginStoppingAnimation is released.                            *)
StopFrame ==
    /\ DueIndex = 0 /\ queue # <<>>
    /\ LET i == Head(queue)
       IN  /\ reels[i].run.kind = "stop" /\ reels[i].more = <<>>
           /\ \E r \in StopUpdate(config, Advance(reels[i])) :
                 IF r.run.time = r.run.duration
                 THEN /\ reels' = [reels EXCEPT ![i] = [r EXCEPT !.run = NoRun]]
                      /\ micro' = Append(micro, [reel |-> i, kind |-> "stop"])
                 ELSE /\ reels' = [reels EXCEPT ![i] = r]
                      /\ micro' = micro
    /\ queue' = Tail(queue)
    /\ lastOp' = "stopFrame"
    /\ UNCHANGED <<config, reelsFinishedSpinningCount, timers,
                   spinButton, stopButton, clock, log>>

(* A due deferred start call: reel.startSpinning, and for the last index   *)
(* emit allStartedSpinning, whose listener in Game enables the stop        *)
(* button.                                                                 *)
StartCall ==
    /\ DueIndex # 0
    /\ LET t == timers[DueIndex]
           i == t.reel
           last == IsLastIndex(config, i)
       IN  /\ t.kind = "start"
           /\ reels' = [reels EXCEPT ![i] = startSpinning(config, reels[i])]
           /\ stopButton' = IF last THEN [stopButton EXCEPT !.disabled = FALSE]
                            ELSE stopButton
           /\ log' = log \o << [ev |-> IF t.cur THEN "start" ELSE "staleStart",
                               reel |-> i, at |-> clock] >>
                         \o (IF last THEN << Event("allStarted", -1) >> ELSE <<>>)
    /\ timers' = RemoveAt(timers, DueIndex)
    /\ lastOp' = "startCall"
    /\ UNCHANGED <<config, reelsFinishedSpinningCount, queue, micro, spinButton, clock>>

(* A due deferred stop call: reel.stopSpinning.                            *)
StopCall ==
    /\ DueIndex # 0
    /\ LET t == timers[DueIndex]
       IN  /\ t.kind = "stop"
           /\ reels' = [reels EXCEPT ![t.reel] = stopSpinning(reels[t.reel])]
           /\ log' = Append(log, [ev |-> IF t.cur THEN "stop" ELSE "staleStop",
                                  reel |-> t.reel, at |-> clock])
    /\ timers' = RemoveAt(timers, DueIndex)
    /\ lastOp' = "stopCall"
    /\ UNCHANGED <<config, reelsFinishedSpinningCount, queue, micro,
                   spinButton, stopButton, clock>>

(* The rest of Reel.startSpinning, once the ease-in tween is done.         *)
EaseInDone ==
    /\ DueIndex = 0 /\ queue = <<>> /\ micro # <<>>
    /\ LET i == Head(micro).reel
       IN  /\ Head(micro).kind = "easeIn"
           /\ \E r \in EaseInContinuation(config, reels[i]) :
                 reels' = [reels EXCEPT ![i] = r]
    /\ micro' = Tail(micro)
    /\ lastOp' = "easeInDone"
    /\ UNCHANGED <<config, reelsFinishedSpinningCount, timers, queue,
                   spinButton, stopButton, clock, log>>

(* ReelArea's listener of a reel's stoppedSpinning: the increment, and the *)
(* test that raises allStoppedSpinning.                                    *)
CountAfterStopped(count) == count + 1

(* The count compared with the last index. *)
AllReelsFinishedOffByOne(c, count) == count = c.reelsCount - 1

AllReelsFinished(c, count) == count = c.reelsCount

(* The rest of Reel.beginStoppingAnimation, once the stopping tween is     *)
(* done: it emits stoppedSpinning, ReelArea counts it and at reels.length  *)
(* emits allStoppedSpinning, whose listener in Game shows and enables the  *)
(* spin button.                                                            *)
StopDone ==
    /\ DueIndex = 0 /\ queue = <<>> /\ micro # <<>>
    /\ LET i == Head(micro).reel
           count == CountAfterStopped(reelsFinishedSpinningCount)
           all == AllReelsFinished(config, count)
       IN  /\ Head(micro).kind = "stop"
           /\ \E r \in StopContinuation(config, reels[i]) :
                 reels' = [reels EXCEPT ![i] = r]
           /\ reelsFinishedSpinningCount' = count
           /\ spinButton' = IF all THEN [visible |-> TRUE, disabled |-> FALSE]
                            ELSE spinButton
           /\ stopButton' = IF all THEN [stopButton EXCEPT !.visible = FALSE]
                            ELSE stopButton
           /\ log' = log \o << Event("stoppedSpinning", i) >>
                         \o (IF all THEN << Event("allStopped", -1) >> ELSE <<>>)
    /\ micro' = Tail(micro)
    /\ lastOp' = "stopDone"
    /\ UNCHANGED <<config, timers, queue, clock>>

Next ==
    \/ SpinClickThrows
    \/ SpinClickStarts
    \/ StopClick
    \/ Tick
    \/ EaseInFrame
    \/ LoopFrame
    \/ StopFrame
    \/ StartCall
    \/ StopCall
    \/ EaseInDone
    \/ StopDone

Spec == Init /\ [][Next]_vars

(* What the driver does on its own: ticks, the frames and deferred calls   *)
(* of a tick, and the continuations released by it.  The clicks are the    *)
(* player's.                                                               *)
Progress ==
    \/ Tick
    \/ EaseInFrame
    \/ LoopFrame
    \/ StopFrame
    \/ StartCall
    \/ StopCall
    \/ EaseInDone
    \/ StopDone

(* The game under a ticker that keeps firing: the application's ticker     *)
(* calls gsap.updateRoot on every frame, and a tick runs its due calls,    *)
(* its frames and the released continuations to the end.  Nothing obliges  *)
(* the player to click.  Grids of two reels.                               *)
FairSpec ==
    /\ Constructed({ c \in GridConfigs : c.reelsCount = 2 })
    /\ [][Next]_vars
    /\ WF_vars(Progress)

----------------------------------------------------------------------------
(* ReelArea driven through its public methods by a caller that does not    *)
(* wait for allStoppedSpinning: startSpinning and stopSpinning at any      *)
(* moment between two ticks.  A reel can then be started while a tween of  *)
(* an earlier start is still active, and holds several tweens at once.     *)
(* As under Game, the deferred calls due in a tick run before the tick's   *)
(* frames.                                                                 *)

MaxRuns == 2
MaxApiStopDelay == 3

(* One reel, one tile shown, a segment of one frame, every draft and       *)
(* direction, over the stop delays.                                        *)
ApiConfigs ==
    { c \in { MakeConfig(1, 1, 1, 1, sd, 1, v, dir, 1) :
                sd \in 1..MaxApiStopDelay, v \in ReelVariants,
                dir \in MovingDirections } :
        ValidConfig(c) }

(* One tween of a reel rendered, with its onUpdate: v is the reel with     *)
(* that tween as its run and no other.  done names the await that the      *)
(* tween's completion releases.                                            *)
RenderOne(c, v) ==
    CASE v.run.kind = "easeIn" ->
           LET a == Advance(v)
           IN  IF a.run.time = a.run.duration
               THEN { [reel |-> [a EXCEPT !.run = NoRun], done |-> "easeIn"] }
               ELSE { [reel |-> a, done |-> "none"] }
      [] v.run.kind = "loop" ->
           { [reel |-> o, done |-> "none"] : o \in LoopUpdate(c, Advance(v)) }
      [] v.run.kind = "stop" ->
           { IF o.run.time = o.run.duration
             THEN [reel |-> [o EXCEPT !.run = NoRun], done |-> "stop"]
             ELSE [reel |-> o, done |-> "none"]
             : o \in StopUpdate(c, Advance(v)) }

(* The tweens of reel r rendered in one tick, oldest first: left of them   *)
(* are still to render and the next is at index p.  A tween that goes on   *)
(* keeps its place; one that completes, or a looping one that pauses       *)
(* itself, leaves the list; the stopping tween that a looping one creates  *)
(* is the youngest and is first rendered in the next tick.  again counts   *)
(* the calls of beginStoppingAnimation that found the reel stopping.       *)
RECURSIVE RenderTweens(_, _, _, _)
RenderTweens(c, r, p, left) ==
    IF left = 0 THEN { [reel |-> r, done |-> <<>>, again |-> 0] }
    ELSE
      LET ts == Tweens(r)
          v  == [r EXCEPT !.run = ts[p], !.more = <<>>]
      IN  UNION {
            LET t1   == x.reel.run
                kept == t1.kind = ts[p].kind
                born == t1.kind # "none" /\ ~kept
                ts1  == IF kept THEN [ts EXCEPT ![p] = t1]
                        ELSE IF born THEN Append(RemoveAt(ts, p), t1)
                        ELSE RemoveAt(ts, p)
                r1   == WithTweens(x.reel, ts1)
                here == IF /\ ts[p].kind = "loop" /\ t1.kind = "none"
                           /\ r.stopping /\ c.variant # "four"
                        THEN 1 ELSE 0
            IN  { [reel  |-> rest.reel,
                   done  |-> (IF x.done = "none" THEN <<>> ELSE <<x.done>>) \o rest.done,
                   again |-> here + rest.again]
                  : rest \in RenderTweens(c, r1, IF kept THEN p + 1 ELSE p, left - 1) }
            : x \in RenderOne(c, v) }

(* The frame of a reel that holds more than one tween.                     *)
ManyFrame ==
    /\ DueIndex = 0 /\ queue # <<>>
    /\ LET i == Head(queue)
       IN  /\ reels[i].more # <<>>
           /\ \E x \in RenderTweens(config, reels[i], 1, Len(Tweens(reels[i]))) :
                 /\ reels' = [reels EXCEPT ![i] = x.reel]
                 /\ micro' = micro \o [k \in 1..Len(x.done) |->
                                         [reel |-> i, kind |-> x.done[k]]]
                 /\ log' = log \o [k \in 1..x.again |-> Event("stoppingAlready", i)]
    /\ queue' = Tail(queue)
    /\ lastOp' = "manyFrame"
    /\ UNCHANGED <<config, reelsFinishedSpinningCount, timers,
                   spinButton, stopButton, clock>>

PendingStarts(i) ==
    Cardinality({ k \in 1..Len(timers) : timers[k].kind = "start" /\ timers[k].reel = i })

(* ReelArea.startSpinning called directly, the check passing.  No reel     *)
(* gets more than MaxRuns tweens.                                          *)
ReelAreaStartSpinning ==
    /\ Idle
    /\ ~ConfigInvalid(config)
    /\ \A i \in ReelIndexes(config) :
          Len(Tweens(reels[i])) + PendingStarts(i) < MaxRuns
    /\ reelsFinishedSpinningCount' = ResetCount
    /\ timers' = Stale(timers) \o StartSchedule(config) \o StopSchedule(config)
    /\ clock' = 0
    /\ log' = << [ev |-> "startSpinning", reel |-> -1, at |-> 0] >>
    /\ lastOp' = "reelAreaStartSpinning"
    /\ UNCHANGED <<config, reels, queue, micro, spinButton, stopButton>>

(* ReelArea.stopSpinning called directly.                                  *)
ReelAreaStopSpinning ==
    /\ Idle
    /\ \E i \in ReelIndexes(config) : ~reels[i].needsToStop
    /\ reels' = [i \in ReelIndexes(config) |-> stopSpinning(reels[i])]
    /\ log' = Append(log, Event("manualStop", -1))
    /\ lastOp' = "reelAreaStopSpinning"
    /\ UNCHANGED <<config, reelsFinishedSpinningCount, timers, queue, micro,
                   spinButton, stopButton, clock>>

ApiNext ==
    \/ ReelAreaStartSpinning
    \/ ReelAreaStopSpinning
    \/ Progress
    \/ ManyFrame

ApiSpec == Constructed(ApiConfigs) /\ [][ApiNext]_vars

----------------------------------------------------------------------------
(* The wrap-and-recycle pass on its own: reels as constructed, over every  *)
(* draft and direction, with the reel count or the tile and texture counts *)
(* varied, and the pass applied to any reel again and again.               *)

PassConfigs ==
    { c \in { MakeConfig(sh[1], sh[2], 1, 1, 1, 1, v, dir, sh[3]) :
                sh \in { <<n, 1, 1>> : n \in 1..MaxReels } \cup
                       { <<1, spr, tx>> : spr \in 1..MaxSymbolsPerReel,
                                          tx \in 1..MaxTextures },
                v \in ReelVariants, dir \in MovingDirections } :
        ValidConfig(c) }

(* loopReel() of a reel *)
Pass ==
    /\ \E i \in ReelIndexes(config) : \E syms \in loopReel(config, reels[i].symbols) :
          reels' = [reels EXCEPT ![i] = [reels[i] EXCEPT !.symbols = syms]]
    /\ lastOp' = "pass"
    /\ UNCHANGED <<config, reelsFinishedSpinningCount, timers, queue, micro,
                   spinButton, stopButton, clock, log>>

PassSpec == Constructed(PassConfigs) /\ [][Pass]_vars

(* The game of one reel. *)
ReelSpec == Constructed(ReelConfigs) /\ [][Next]_vars

(* The game of one reel whose scheduled stop comes late: a cycle that the  *)
(* player stops by hand as soon as the reel loops ends after               *)
(* 8 * spinningTweenDuration frames, and the ease-in of the next cycle     *)
(* after 2 * spinningTweenDuration more.                                   *)
LateStopDelay == 11

LateConfigs ==
    { c \in { MakeConfig(1, 1, 1, si, LateStopDelay, 1, v, dir, 1) :
                si \in {1, LateStopDelay + 1},
                v \in ReelVariants, dir \in MovingDirections } :
        ValidConfig(c) }

LateSpec == Constructed(LateConfigs) /\ [][Next]_vars

----------------------------------------------------------------------------
(* The configuration check on the shipped reel count, start interval and   *)
(* stop delay and on smaller values of each: the spin click is the only    *)
(* step.                                                                   *)

reelsCount == 6
startInterval == 400
stopDelay == 4000

CheckedConfigs ==
    { MakeConfig(n, 1, 1, si, sd, si, "down", "DOWN", 1) :
        n \in 1..reelsCount,
        si \in { k * (startInterval \div 4) : k \in 1..4 },
        sd \in { k * (stopDelay \div 8) : k \in 1..8 } }

CheckNext == SpinClickThrows \/ SpinClickStarts

CheckSpec == Constructed(CheckedConfigs) /\ [][CheckNext]_vars

----------------------------------------------------------------------------
(* Reading the log of the current cycle.                                   *)

Entries(ev) == { k \in 1..Len(log) : log[k].ev = ev }

EntriesOf(ev, i) == { k \in 1..Len(log) : log[k].ev = ev /\ log[k].reel = i }

(* The number of stoppedSpinning among the first k entries. *)
StoppedUpTo(k) == Cardinality({ j \in 1..k : log[j].ev = "stoppedSpinning" })

Pending(kind, i) ==
    { k \in 1..Len(timers) :
        timers[k].cur /\ timers[k].kind = kind /\ timers[k].reel = i }

LastStartAt(c) == (c.reelsCount - 1) * c.startInterval

----------------------------------------------------------------------------
(* C1: ReelArea.startSpinning throws exactly when                          *)
(* (reelsCount - 1) * startInterval > stopDelay, and proceeds whenever     *)
(* (reelsCount - 1) * startInterval <= stopDelay, equality included.       *)
C1_ThrowsExactlyWhenLastStartAfterStopDelay ==
    /\ lastOp = "spinClickThrows" => LastStartAt(config) > config.stopDelay
    /\ lastOp = "spinClickStarts" => LastStartAt(config) <= config.stopDelay

C1_Witness ==
    /\ lastOp = "spinClickThrows"
    /\ config.reelsCount = 2 /\ config.startInterval = 2 /\ config.stopDelay = 2
    /\ LastStartAt(config) = config.stopDelay

(* C2: a startSpinning that throws resets no count, schedules no deferred  *)
(* call, changes no reel and raises no notification.                       *)
C2_NoPartialStart ==
    [][lastOp' = "spinClickThrows" =>
         UNCHANGED <<reelsFinishedSpinningCount, timers, reels, queue, micro, log>>]_vars

C2_Witness ==
    /\ lastOp = "spinClickThrows"
    /\ ConfigInvalid(config)
    /\ timers = <<>> /\ log = <<>>

(* C3: with 6 reels and a start interval of 400 the check passes for a     *)
(* stop delay of 4000 and throws for a stop delay of 1500.                 *)
C3_ShippedCheck ==
    (config.reelsCount = reelsCount /\ config.startInterval = startInterval) =>
        /\ config.stopDelay = stopDelay =>
              ~ConfigInvalid(config) /\ lastOp # "spinClickThrows"
        /\ config.stopDelay = 1500 =>
              ConfigInvalid(config) /\ lastOp # "spinClickStarts"

C3_Witness ==
    /\ config.reelsCount = reelsCount
    /\ config.startInterval = startInterval
    /\ config.stopDelay = stopDelay
    /\ lastOp = "spinClickStarts"
    /\ Len(timers) = 2 * reelsCount

(* C4: in a cycle started at T the start of reel i is issued exactly once, *)
(* at T + i * startInterval, so the starts come in increasing index order; *)
(* no start is issued by a call of an earlier cycle.                       *)
C4_StartsOnSchedule ==
    /\ \A k \in 1..Len(log) : log[k].ev # "staleStart"
    /\ \A j, k \in 1..Len(log) :
          (j < k /\ log[j].ev = "start" /\ log[k].ev = "start")
             => log[j].reel < log[k].reel
    /\ log # <<>> =>
         \A i \in ReelIndexes(config) :
            /\ \A k \in EntriesOf("start", i) : log[k].at = i * config.startInterval
            /\ Cardinality(EntriesOf("start", i)) + Cardinality(Pending("start", i)) = 1
            /\ \A k \in Pending("start", i) :
                  timers[k].remaining = i * config.startInterval - clock

C4_Witness ==
    /\ config.reelsCount = 3
    /\ config.startInterval = 2
    /\ \E k \in EntriesOf("start", 2) : log[k].at = 4
    /\ Cardinality(Entries("start")) = 3

(* C5: a cycle raises allStartedSpinning exactly once, in the deferred     *)
(* call that starts the last reel and right after that start; every reel's *)
(* start has been issued by then, the last reel's ease-in has only begun,  *)
(* and Game's listener enables the stop button.                            *)
C5_AllStartedWithLastStart ==
    /\ Cardinality(Entries("allStarted")) <= 1
    /\ \A k \in Entries("allStarted") :
          /\ k > 1
          /\ log[k - 1].ev = "start"
          /\ log[k - 1].reel = config.reelsCount - 1
          /\ log[k - 1].at = log[k].at
          /\ \A i \in ReelIndexes(config) :
                \E j \in 1..(k - 1) : log[j].ev = "start" /\ log[j].reel = i
    /\ \A k \in EntriesOf("start", config.reelsCount - 1) :
          k < Len(log) /\ log[k + 1].ev = "allStarted"
    /\ (lastOp = "startCall" /\ log[Len(log)].ev = "allStarted") =>
          /\ reels[config.reelsCount - 1].run.kind = "easeIn"
          /\ reels[config.reelsCount - 1].run.time = 0
          /\ ~stopButton.disabled

C5_Witness ==
    /\ lastOp = "startCall"
    /\ config.reelsCount = 3
    /\ log[Len(log)].ev = "allStarted"
    /\ reels[0].run.kind = "loop"
    /\ reels[2].run.kind = "easeIn"

(* C6: in a cycle started at T the schedule invokes reel i's stopSpinning  *)
(* exactly once, at T + stopDelay + i * stopInterval, whatever the reel is *)
(* doing; the call sets the latch.                                         *)
C6_StopsOnSchedule ==
    /\ log # <<>> =>
         \A i \in ReelIndexes(config) :
            /\ \A k \in EntriesOf("stop", i) :
                  log[k].at = config.stopDelay + i * config.stopInterval
            /\ Cardinality(EntriesOf("stop", i)) + Cardinality(Pending("stop", i)) = 1
            /\ \A k \in Pending("stop", i) :
                  timers[k].remaining =
                     config.stopDelay + i * config.stopInterval - clock
    /\ lastOp = "stopCall" => reels[log[Len(log)].reel].needsToStop

C6_Witness ==
    /\ lastOp = "stopCall"
    /\ config.stopInterval = 2 /\ config.startInterval = 1
    /\ log[Len(log)] = [ev |-> "stop", reel |-> 2, at |-> config.stopDelay + 4]
    /\ reels[2].needsToStop

(* C7: in a cycle that passed the check every reel's start is issued       *)
(* before the first scheduled stop.                                        *)
C7_StartsBeforeStops ==
    \A k \in Entries("stop") :
        \A i \in ReelIndexes(config) :
            \E j \in 1..(k - 1) : log[j].ev = "start" /\ log[j].reel = i

C7_Witness ==
    /\ config.reelsCount = 3
    /\ config.stopDelay = 3
    /\ Entries("stop") # {}
    /\ \E j \in EntriesOf("start", 2) :
          \A k \in Entries("stop") : j < k /\ log[j].at + 1 = log[k].at

(* C8: every stoppedSpinning of a reel adds one to the count, and          *)
(* allStoppedSpinning is raised exactly when the count becomes the number  *)
(* of reels: once in a cycle, right after the last reel's notification.    *)
C8_CountsStoppedReels ==
    /\ reelsFinishedSpinningCount = StoppedUpTo(Len(log))
    /\ \A i \in ReelIndexes(config) : Cardinality(EntriesOf("stoppedSpinning", i)) <= 1
    /\ Cardinality(Entries("allStopped")) <= 1
    /\ \A k \in Entries("allStopped") :
          /\ k > 1 /\ log[k - 1].ev = "stoppedSpinning"
          /\ StoppedUpTo(k) = config.reelsCount
    /\ \A k \in Entries("stoppedSpinning") :
          StoppedUpTo(k) = config.reelsCount
             => k < Len(log) /\ log[k + 1].ev = "allStopped"

C8_Witness ==
    /\ lastOp = "stopDone"
    /\ config.reelsCount = 3
    /\ reelsFinishedSpinningCount = 3
    /\ log[Len(log)].ev = "allStopped"

(* C9: the count is set to 0 by every startSpinning that passes the check  *)
(* and by nothing else, a stoppedSpinning adds one to it also when         *)
(* allStoppedSpinning is raised, and it stays within 0..reelsCount over    *)
(* any number of cycles.                                                   *)
C9_CountResetOnlyByStart ==
    /\ [](reelsFinishedSpinningCount \in 0..config.reelsCount)
    /\ [][/\ lastOp' = "spinClickStarts" => reelsFinishedSpinningCount' = 0
          /\ reelsFinishedSpinningCount' # reelsFinishedSpinningCount =>
                \/ lastOp' = "spinClickStarts"
                \/ /\ lastOp' = "stopDone"
                   /\ reelsFinishedSpinningCount' = reelsFinishedSpinningCount + 1]_vars

C9_Witness ==
    /\ lastOp = "spinClickStarts"
    /\ reelsFinishedSpinningCount = 0
    /\ config.reelsCount = 3
    /\ \A i \in ReelIndexes(config) : reels[i].needsToStop

(* C10: every reel has symbolsPerReel + 1 tiles, always.                   *)
C10_TileCount ==
    \A i \in ReelIndexes(config) :
        Len(reels[i].symbols) = config.symbolsPerReel + 1

C10_Witness ==
    /\ lastOp = "stopDone"
    /\ config.symbolsPerReel = 2
    /\ Len(reels[0].symbols) = 3
    /\ EntriesOf("stoppedSpinning", 0) # {}

----------------------------------------------------------------------------
(* C11: a reel's stopping sequence starts only in a frame of the looping   *)
(* tween whose time has passed spinningTweenDuration, with the latch set   *)
(* and right after the wrap-and-recycle pass of that frame: never in the   *)
(* middle of a loop segment and never during the ease-in.                  *)
C11_StopStartsAtWrap ==
    [][\A i \in ReelIndexes(config) :
          (/\ reels'[i].stopping \/ reels'[i].run.kind = "stop"
           /\ ~reels[i].stopping /\ reels[i].run.kind # "stop")
          => /\ lastOp' = "loopFrame"
             /\ reels[i].run.kind = "loop"
             /\ reels[i].run.time + 1 > config.spinningTweenDuration
             /\ reels[i].needsToStop
             /\ reels'[i].symbols \in loopReel(config, reels[i].symbols)]_vars

C11_Witness ==
    /\ lastOp = "loopFrame"
    /\ config.spinningTweenDuration = 2
    /\ reels[0].stopping
    /\ reels[0].run.kind = "stop" /\ reels[0].run.time = 0
    /\ reels[0].position # InitialReelPosition(config, 0)

(* The tiles' positions, and where the constructor put them.               *)
TilePositions(r) ==
    { [x |-> r.symbols[k].x, y |-> r.symbols[k].y] : k \in 1..Len(r.symbols) }

RestingOffsets(c) == { InitialSymbolPosition(c, k) : k \in 0..c.symbolsPerReel }

(* No tween of reel i runs and no continuation of one is waiting.          *)
AtRest(i) ==
    /\ reels[i].run.kind = "none"
    /\ \A m \in 1..Len(micro) : micro[m].reel # i

(* The reel whose stoppedSpinning was emitted last. *)
LastStopped ==
    LET k == CHOOSE j \in 1..Len(log) :
                /\ log[j].ev = "stoppedSpinning"
                /\ \A m \in (j + 1)..Len(log) : log[m].ev # "stoppedSpinning"
    IN  log[k].reel

(* C13: when a reel has completed a cycle (ease-in, loop wraps, stopping   *)
(* sequence) its tiles occupy the resting offsets they had before the      *)
(* cycle and the reel's own offset is back where it was; only textures may *)
(* differ.                                                                 *)
C13_RestingLayoutRestored ==
    lastOp = "stopDone" =>
        /\ TilePositions(reels[LastStopped]) = RestingOffsets(config)
        /\ reels[LastStopped].position = InitialReelPosition(config, LastStopped)

C13_Witness ==
    /\ lastOp = "stopDone"
    /\ config.variant = "updown" /\ config.movingDirection = "UP"
    /\ config.symbolsPerReel = 2
    /\ AtRest(0)
    /\ TilePositions(reels[0]) = RestingOffsets(config)

(* C14: in every run of as many consecutive wrap-and-recycle passes as the *)
(* reel has tiles (passes of the ease-in, of the loop and of the stopping  *)
(* sequence, across cycles too) every tile gets a new texture: no tile     *)
(* goes through that many passes in a row keeping its texture.             *)
C14_TextureReassignedWithinTileCount ==
    \A i \in ReelIndexes(config) :
        \A k \in 1..Len(reels[i].symbols) :
            reels[i].symbols[k].age < Len(reels[i].symbols)

(* A stop was requested of reel i (by its deferred stop call or by the     *)
(* manual stop) after its startSpinning of this cycle began.               *)
StopRequestedAfterStart(i) ==
    \E j \in 1..Len(log) : \E k \in (j + 1)..Len(log) :
        /\ log[j].ev \in {"start", "staleStart"} /\ log[j].reel = i
        /\ \/ log[k].ev \in {"stop", "staleStop"} /\ log[k].reel = i
           \/ log[k].ev = "manualStop"

(* Reel i is in its ease-in or its loop: started and not yet stopping.     *)
EasingInOrLooping(i) ==
    \/ reels[i].run.kind \in {"easeIn", "loop"}
    \/ \E m \in 1..Len(micro) : micro[m].reel = i /\ micro[m].kind = "easeIn"

(* C17: a stop requested of a reel after its startSpinning began, also     *)
(* during the ease-in, stays latched until the reel enters its stopping    *)
(* sequence: while the reel eases in or loops after the request, the latch *)
(* is set.                                                                 *)
C17_LatchKeptUntilHonoured ==
    \A i \in ReelIndexes(config) :
        (StopRequestedAfterStart(i) /\ EasingInOrLooping(i)) => reels[i].needsToStop

ReachedTileExtent(i) ==
    IF config.movingDirection = "UP"
    THEN reels[i].position.y <= -symbolHeight(config)
    ELSE reels[i].position.y >= symbolHeight(config)

(* C20: within one stopping sequence the threshold-crossing compensation   *)
(* (a wrap-and-recycle pass, then every tile moved back by a tile height)  *)
(* is done exactly once, on the first frame on which the reel's offset has *)
(* reached one tile height in the motion direction: never twice, done as   *)
(* soon as the offset is there and not before, and done by the time the    *)
(* sequence ends.                                                          *)
C20_CompensationExactlyOnce ==
    /\ \A i \in ReelIndexes(config) :
          /\ reels[i].compensations <= 1
          /\ reels[i].run.kind = "stop" /\ reels[i].run.time > 0
                => (reels[i].compensations >= 1 <=> ReachedTileExtent(i))
    /\ lastOp = "stopDone" => reels[LastStopped].compensations = 1

(* The reel moves along x in the horizontal directions of the third draft, *)
(* along y otherwise.                                                      *)
MovesAlongX(c) == c.variant = "four" /\ c.movingDirection \in {"LEFT", "RIGHT"}

(* Extent of the mask of the reel area along the motion axis, and of one   *)
(* tile.                                                                   *)
ViewportExtent(c) == IF MovesAlongX(c) THEN c.reelAreaWidth ELSE c.reelAreaHeight
TileExtent(c) == IF MovesAlongX(c) THEN symbolWidth(c) ELSE symbolHeight(c)

(* Where tile k of reel r begins in the reel area, along the motion axis:  *)
(* its position inside the reel displaced by the reel's offset.            *)
TileStart(c, r, k) ==
    IF MovesAlongX(c) THEN r.position.x + r.symbols[k].x
    ELSE r.position.y + r.symbols[k].y

Covered(c, r) ==
    \A p \in 0..(ViewportExtent(c) - 1) :
        \E k \in 1..Len(r.symbols) :
            TileStart(c, r, k) <= p /\ p < TileStart(c, r, k) + TileExtent(c)

(* C19: at the end of every tick, whatever a reel is doing (easing in,     *)
(* looping, stopping with its overshoot, idle), its tiles displaced by the *)
(* reel's offset cover the whole extent of the viewport along the motion   *)
(* axis: no gap at the leading or the trailing edge.                       *)
C19_ViewportCovered ==
    Idle => \A i \in ReelIndexes(config) : Covered(config, reels[i])

AllStoppedRaised == \E k \in 1..Len(log) : log[k].ev = "allStopped"

(* C16: with the ticker and the deferred calls making progress, every      *)
(* successful startSpinning of the grid is followed by allStoppedSpinning  *)
(* (every reel having emitted stoppedSpinning and come to rest), whether   *)
(* or not the player ever clicks stop.                                     *)
C16_EveryStartEndsInAllStopped ==
    (lastOp = "spinClickStarts") ~>
        (/\ AllStoppedRaised
         /\ \A i \in ReelIndexes(config) : AtRest(i) /\ ~reels[i].stopping)

(* C15: a reel has at most one active motion run (ease-in, loop or         *)
(* stopping tween) in every reachable state: Reel.startSpinning on a reel  *)
(* that is not idle starts no further run.                                 *)
C15_AtMostOneRun ==
    \A i \in ReelIndexes(config) : Len(Tweens(reels[i])) <= 1

(* The stopping tweens of reel i that are active or whose continuation is  *)
(* still to run.                                                           *)
StopRuns(i) ==
    Cardinality({ k \in 1..Len(Tweens(reels[i])) : Tweens(reels[i])[k].kind = "stop" })
    + Cardinality({ m \in 1..Len(micro) : micro[m].reel = i /\ micro[m].kind = "stop" })

(* C12: beginStoppingAnimation on a reel whose stopping sequence has begun *)
(* and not ended changes nothing and starts no second stopping tween: a    *)
(* reel never has two stopping tweens, it is flagged stopping exactly      *)
(* while it has one, and so a sequence entered twice ends in one           *)
(* stoppedSpinning.                                                        *)
C12_StoppingEnteredOnce ==
    \A i \in ReelIndexes(config) :
        /\ StopRuns(i) <= 1
        /\ reels[i].stopping => beginStoppingAnimation(config, reels[i]) = reels[i]
        /\ config.variant # "four" => (reels[i].stopping <=> StopRuns(i) = 1)

C12_Witness ==
    /\ lastOp = "stopDone"
    /\ config.variant = "updown"
    /\ EntriesOf("stoppingAlready", 0) # {}
    /\ Cardinality(EntriesOf("stoppedSpinning", 0)) = 1
    /\ Tweens(reels[0]) = <<>>
    /\ ~reels[0].stopping

(* Tile s, advanced by one tile extent in the motion direction, is past    *)
(* the trailing boundary of the viewport.                                  *)
CrossesTrailing(c, s) ==
    CASE c.movingDirection = "DOWN"  -> s.y + symbolHeight(c) >= c.reelAreaHeight
      [] c.movingDirection = "UP"    -> s.y - symbolHeight(c) <= -symbolHeight(c)
      [] c.movingDirection = "LEFT"  -> s.x - symbolWidth(c) <= -symbolWidth(c)
      [] c.movingDirection = "RIGHT" -> s.x + symbolWidth(c) >= c.reelAreaWidth

PassSteps == {"easeInDone", "loopFrame", "stopFrame", "stopDone"}

(* C21: a tile's texture changes only in a step that makes a               *)
(* wrap-and-recycle pass, and only for a tile that the pass carries past   *)
(* the trailing boundary; tiles advanced without wrapping keep theirs, and *)
(* so does every tile in every other step (start, latch, frames without a  *)
(* pass).                                                                  *)
C21_TextureChangesOnlyOnWrap ==
    [][\A i \in ReelIndexes(config) : \A k \in 1..Len(reels[i].symbols) :
          reels'[i].symbols[k].tex # reels[i].symbols[k].tex
          => /\ lastOp' \in PassSteps
             /\ CrossesTrailing(config, reels[i].symbols[k])]_vars

C21_Witness ==
    /\ lastOp = "loopFrame"
    /\ config.textures = 2
    /\ \E k, j \in 1..Len(reels[0].symbols) :
          /\ reels[0].symbols[k].age = 0 /\ reels[0].symbols[k].tex = 2
          /\ reels[0].symbols[j].age > 0 /\ reels[0].symbols[j].tex = 1

(* C22: within a reel the looping tween begins only when the ease-in tween *)
(* has completed, in the step that continues startSpinning after it; that  *)
(* step makes exactly one wrap-and-recycle pass, puts the reel's offset    *)
(* back to where it rested and clears the stop latch, and the looping      *)
(* tween has rendered no frame by then.  A reel never has a looping and an *)
(* ease-in tween together.                                                 *)
C22_EaseInThenOnePassThenLoop ==
    [][\A i \in ReelIndexes(config) :
          /\ (reels'[i].run.kind = "loop" /\ reels[i].run.kind # "loop")
             => /\ lastOp' = "easeInDone"
                /\ Tweens(reels[i]) = <<>>
                /\ Head(micro) = [reel |-> i, kind |-> "easeIn"]
                /\ reels'[i].symbols \in loopReel(config, reels[i].symbols)
                /\ reels'[i].position = InitialReelPosition(config, i)
                /\ ~reels'[i].needsToStop
                /\ reels'[i].run.time = 0
          /\ reels[i].run.kind = "easeIn" => reels[i].more = <<>>]_vars

(* Where a wrapped tile belongs: one tile extent outside the viewport on   *)
(* the side the motion comes from.                                         *)
LeadingOutside(c, s) ==
    CASE c.movingDirection = "DOWN"  -> s.y = -symbolHeight(c)
      [] c.movingDirection = "UP"    -> s.y = c.reelAreaHeight
      [] c.movingDirection = "LEFT"  -> s.x = c.reelAreaWidth
      [] c.movingDirection = "RIGHT" -> s.x = -symbolWidth(c)

(* The tiles of r are pairwise distinct and follow each other at one tile  *)
(* extent along the motion axis.                                           *)
Contiguous(c, r) ==
    LET at == { TileStart(c, r, k) : k \in 1..Len(r.symbols) }
        lo == CHOOSE a \in at : \A b \in at : a <= b
    IN  /\ Cardinality(TilePositions(r)) = Len(r.symbols)
        /\ at = { lo + m * TileExtent(c) : m \in 0..(Len(r.symbols) - 1) }

(* C23: in each of the four directions a wrap-and-recycle pass applied to  *)
(* a reel whose tiles are on the resting offsets wraps exactly one tile,   *)
(* puts it one tile extent outside the viewport on the side the motion     *)
(* comes from, and leaves the set of tile positions as it was: the tiles   *)
(* stay pairwise distinct and contiguous.                                  *)
C23_PassWrapsOneTileKeepsLayout ==
    [][\A i \in ReelIndexes(config) :
          (/\ lastOp' = "pass" /\ reels'[i] # reels[i]
           /\ TilePositions(reels[i]) = RestingOffsets(config))
          => /\ Cardinality({ k \in 1..Len(reels[i].symbols) :
                                 reels'[i].symbols[k].age = 0 }) = 1
             /\ \A k \in 1..Len(reels[i].symbols) :
                   reels'[i].symbols[k].age = 0
                      => LeadingOutside(config, reels'[i].symbols[k])
             /\ TilePositions(reels'[i]) = TilePositions(reels[i])
             /\ Contiguous(config, reels'[i])]_vars

(* How far reel i is from where it rests, counted in the direction of its  *)
(* motion.                                                                 *)
BulkOffset(c, r, i) ==
    CASE c.movingDirection = "DOWN"  -> r.position.y - InitialReelPosition(c, i).y
      [] c.movingDirection = "UP"    -> InitialReelPosition(c, i).y - r.position.y
      [] c.movingDirection = "RIGHT" -> r.position.x - InitialReelPosition(c, i).x
      [] c.movingDirection = "LEFT"  -> InitialReelPosition(c, i).x - r.position.x

(* C24: a frame of the looping tween whose time has passed                 *)
(* spinningTweenDuration makes exactly one wrap-and-recycle pass and seeks *)
(* the tween to that time modulo spinningTweenDuration; any other frame of *)
(* it makes no pass.  After every frame of the looping tween its time is   *)
(* at most spinningTweenDuration and the reel's offset lies between 0 and  *)
(* one tile extent in the motion direction.                                *)
C24_LoopFrameWrapsAndReseeks ==
    [][lastOp' = "loopFrame" =>
          LET i == Head(queue)
              t == reels[i].run.time + 1
              D == config.spinningTweenDuration
          IN  /\ IF t > D
                 THEN /\ reels'[i].symbols \in loopReel(config, reels[i].symbols)
                      /\ reels'[i].run.kind = "loop" => reels'[i].run.time = t % D
                 ELSE /\ reels'[i].symbols = reels[i].symbols
                      /\ reels'[i].run.kind = "loop" /\ reels'[i].run.time = t
              /\ reels'[i].run.time <= D
              /\ BulkOffset(config, reels'[i], i) \in 0..TileExtent(config)]_vars

(* Reel i is between the start of its stopping tween and the end of the    *)
(* continuation that follows it.                                           *)
InStoppingSequence(i) ==
    \/ \E k \in 1..Len(Tweens(reels[i])) : Tweens(reels[i])[k].kind = "stop"
    \/ \E k \in 1..Len(micro) : micro[k] = [kind |-> "stop", reel |-> i]

(* C25: a reel emits stoppedSpinning only in the continuation of its       *)
(* finished stopping tween, after the last wrap-and-recycle pass; in the   *)
(* state of the emit the reel is back at its resting place with isStopping *)
(* lowered, and isStopping is raised in every state between the start of   *)
(* the stopping tween and that continuation.                               *)
C25_StoppedOnlyAtStopCompletion ==
    /\ [][\A i \in ReelIndexes(config) :
             (\E k \in (Len(log) + 1)..Len(log') :
                 log'[k] = [ev |-> "stoppedSpinning", reel |-> i, at |-> clock])
             => /\ lastOp' = "stopDone"
                /\ micro # <<>> /\ Head(micro) = [kind |-> "stop", reel |-> i]
                /\ \A k \in 1..Len(Tweens(reels[i])) :
                      Tweens(reels[i])[k].kind # "stop"
                /\ reels'[i].symbols \in loopReel(config, reels[i].symbols)
                /\ BulkOffset(config, reels'[i], i) = 0
                /\ ~reels'[i].stopping]_vars
    /\ [](\A i \in ReelIndexes(config) : InStoppingSequence(i) => reels[i].stopping)

C25_Witness ==
    /\ lastOp = "stopDone"
    /\ \E k \in 1..Len(log) :
          /\ log[k].ev = "stoppedSpinning" /\ log[k].at = clock
          /\ ~reels[log[k].reel].stopping
          /\ BulkOffset(config, reels[log[k].reel], log[k].reel) = 0
          /\ reels[log[k].reel].compensations > 0

(* The reels on which the step calls Reel.stopSpinning. *)
StopSpinningCalledOn ==
    CASE lastOp' = "stopCall" -> { timers[DueIndex].reel }
      [] lastOp' \in {"stopClick", "reelAreaStopSpinning"} -> ReelIndexes(config)
      [] OTHER -> {}

(* C26: Reel.stopSpinning only raises needsToStop: whatever the reel is    *)
(* doing, the call leaves its position, its symbols' positions and         *)
(* textures, stopping, backoutStarted and its tweens as they were, and a   *)
(* call on a reel whose latch is already raised changes nothing.           *)
C26_StopSpinningOnlyLatches ==
    [][\A i \in StopSpinningCalledOn :
          /\ reels'[i] = [reels[i] EXCEPT !.needsToStop = TRUE]
          /\ reels[i].needsToStop => reels'[i] = reels[i]]_vars

C26_Witness ==
    /\ lastOp = "stopCall"
    /\ log[Len(log)].ev \in {"stop", "staleStop"}
    /\ Entries("manualStop") # {}
    /\ LET r == reels[log[Len(log)].reel]
       IN  r.needsToStop /\ r.run.kind = "stop" /\ r.stopping

(* The step raises allStoppedSpinning. *)
AllStoppedEmitted ==
    \E k \in (Len(log) + 1)..Len(log') : log'[k].ev = "allStopped"

(* C27: whatever the order of ReelArea.startSpinning and stopSpinning      *)
(* calls, allStoppedSpinning is raised only in a state where no reel has a *)
(* tween running or a continuation pending: a stoppedSpinning of an        *)
(* earlier cycle is never counted after a later startSpinning has reset    *)
(* reelsFinishedSpinningCount.                                             *)
C27_AllStoppedOnlyWhenAllIdle ==
    [][AllStoppedEmitted =>
          \A i \in ReelIndexes(config) :
             /\ Tweens(reels'[i]) = <<>>
             /\ ~reels'[i].stopping
             /\ \A m \in 1..Len(micro') : micro'[m].reel # i]_vars

(* C28: a deferred stop call only latches reels of the cycle whose         *)
(* startSpinning scheduled it: after a cycle ended by a stop click and a   *)
(* new spin click, the latch of reel i is raised only by a stop click or   *)
(* by the deferred call of the new cycle, stopDelay + i * stopInterval     *)
(* after the new start.                                                    *)
C28_StopCallLatchesOwnCycleOnly ==
    [][\A i \in ReelIndexes(config) :
          (~reels[i].needsToStop /\ reels'[i].needsToStop)
          => \/ lastOp' = "stopClick"
             \/ /\ lastOp' = "stopCall"
                /\ timers[DueIndex].cur
                /\ clock >= config.stopDelay + i * config.stopInterval]_vars

(* Reel i has no tween, no continuation pending and no deferred start call *)
(* waiting.                                                                *)
ReelIdle(i) ==
    /\ Tweens(reels[i]) = <<>>
    /\ ~reels[i].stopping
    /\ \A m \in 1..Len(micro) : micro[m].reel # i
    /\ \A k \in 1..Len(timers) : ~(timers[k].kind = "start" /\ timers[k].reel = i)

(* allStartedSpinning of the current cycle has been raised and neither a   *)
(* stop click nor allStoppedSpinning has followed it.                      *)
StopWindowOpen ==
    /\ Entries("allStarted") # {}
    /\ Entries("manualStop") = {}
    /\ Entries("allStopped") = {}

(* C29: through Game's buttons, ReelArea.startSpinning is called only when *)
(* every reel is idle, and ReelArea.stopSpinning only after the cycle's    *)
(* allStartedSpinning and before its stop click or allStoppedSpinning: the *)
(* spin button takes clicks only before the first start and after          *)
(* allStoppedSpinning, the stop button only after allStartedSpinning of    *)
(* the current cycle.                                                      *)
C29_ButtonsGateStartAndStop ==
    /\ [][/\ lastOp' \in {"spinClickStarts", "spinClickThrows"}
             => \A i \in ReelIndexes(config) : ReelIdle(i)
          /\ lastOp' = "stopClick" => StopWindowOpen]_vars
    /\ []((spinButton.visible /\ ~spinButton.disabled)
             => \/ Entries("startSpinning") = {}
                \/ Entries("allStopped") # {})
    /\ []((stopButton.visible /\ ~stopButton.disabled) => StopWindowOpen)

C29_Witness ==
    /\ lastOp = "spinClickStarts"
    /\ config.reelsCount >= 2
    /\ \A i \in ReelIndexes(config) :
          reels[i].backoutStarted /\ reels[i].run.kind = "none"
    /\ ~Clickable(spinButton) /\ ~Clickable(stopButton)

====
